---- MODULE Spec2Model ----
(***************************************************************************)
(* Expression builders of src/functions.rs: every builder is a pure        *)
(* constructor of an expression-tree node; window() alone reads the        *)
(* session's registry of user-defined aggregates.                          *)
(*                                                                         *)
(* A behaviour of Spec is one builder call on the initialised module: Init *)
(* fixes the contents of the session's registry, one action draws the      *)
(* call's inputs and applies the builder, leaving the call made in `call`  *)
(* and what it returned in `result`. A behaviour of SpecInit is one run of *)
(* init_module, registration by registration. A behaviour of SpecTwice is  *)
(* one builder call, made a second time with the same inputs after the     *)
(* session has registered more aggregates.                                 *)
(***************************************************************************)
EXTENDS Naturals, Sequences, FiniteSets, TLC

VARIABLES
    registry,      \* names of the aggregates registered in the session
    call,          \* the builder called and the inputs it was given
    result,        \* what the call returned: a node or an error
    udaf_lookups,  \* how many times the session's registry was queried
    module,        \* the names init_module has registered in the module, in order
    init,          \* how far init_module has come, and how it ended
    registry_before,  \* the registry's contents before the call
    again          \* what the same call returned when it was made again

vars ==
    <<registry, call, result, udaf_lookups, module, init, registry_before,
      again>>

(***************************************************************************)
(* Bounds of the model.                                                    *)
(***************************************************************************)
\* longest argument, partition-by or order-by list a call is given
MaxLen == 2
\* deepest nesting of Alias nodes in an expression handed to a builder
MaxAliasDepth == 1
\* longest list of arguments concat and concat_ws are given
MaxConcatArgs == 3

(***************************************************************************)
(* Rust values: Option, Result and Vec.                                    *)
(***************************************************************************)
None == [some |-> FALSE]
Some(x) == [some |-> TRUE, v |-> x]

unwrap_or(opt, default) == IF opt.some THEN opt.v ELSE default

Ok(node) == [status |-> "ok", node |-> node]
Err(kind, msg) == [status |-> "err", kind |-> kind, msg |-> msg]

\* every sequence over S of length at most n
SeqsUpTo(S, n) == UNION {[1..k -> S] : k \in 0..n}

(***************************************************************************)
(* Expression nodes (datafusion_expr::Expr), as the builders fill them.    *)
(***************************************************************************)
\* lit(value) of a Rust integer: a literal of type Int32
lit(value) == [tag |-> "Literal", value |-> [Int32 |-> value]]

\* col(name): an unqualified column reference
col(name) == [tag |-> "Column", relation |-> None, name |-> name]

\* alias that renames an expression already aliased instead of nesting
alias_renaming(expr, name) ==
    IF expr.tag = "Alias"
    THEN [tag |-> "Alias", expr |-> expr.expr, relation |-> None, name |-> name]
    ELSE [tag |-> "Alias", expr |-> expr, relation |-> None, name |-> name]

\* alias(expr, name): Alias::new(expr, None, name)
alias(expr, name) ==
    [tag |-> "Alias", expr |-> expr, relation |-> None, name |-> name]

\* order_by with nulls last when nulls_first is omitted
order_by_nulls_last(expr, asc, nulls_first) ==
    [tag |-> "Sort",
     expr |-> expr,
     asc |-> unwrap_or(asc, TRUE),
     nulls_first |-> unwrap_or(nulls_first, FALSE)]

\* order_by(expr, asc, nulls_first): both flags default to true
order_by(expr, asc, nulls_first) ==
    [tag |-> "Sort",
     expr |-> expr,
     asc |-> unwrap_or(asc, TRUE),
     nulls_first |-> unwrap_or(nulls_first, TRUE)]

\* scalar_function! collecting the arguments back to front
scalar_function_reversed(FUNC, args) ==
    [tag |-> "ScalarFunction",
     func_def |-> [kind |-> "BuiltIn", fun |-> FUNC],
     args |-> [i \in 1..Len(args) |-> args[Len(args) + 1 - i]]]

\* the body scalar_function! generates for constructor (NAME, FUNC)
scalar_function(FUNC, args) ==
    [tag |-> "ScalarFunction",
     func_def |-> [kind |-> "BuiltIn", fun |-> FUNC],
     args |-> args]

\* the default of the keyword `distinct` in an aggregate's signature
distinct_default(distinct) == unwrap_or(distinct, FALSE)

\* aggregate_function! with distinct fixed to false, as count_star has it
aggregate_function_not_distinct(FUNC, args, distinct) ==
    [tag |-> "AggregateFunction",
     func_def |-> [kind |-> "BuiltIn", fun |-> FUNC],
     args |-> args,
     distinct |-> FALSE,
     filter |-> None,
     order_by |-> None]

\* the body aggregate_function! generates for constructor (NAME, FUNC)
aggregate_function(FUNC, args, distinct) ==
    [tag |-> "AggregateFunction",
     func_def |-> [kind |-> "BuiltIn", fun |-> FUNC],
     args |-> args,
     distinct |-> distinct,
     filter |-> None,
     order_by |-> None]

\* count_star counting no argument at all
count_star_no_args ==
    [tag |-> "AggregateFunction",
     func_def |-> [kind |-> "BuiltIn", fun |-> "Count"],
     args |-> <<>>,
     distinct |-> FALSE,
     filter |-> None,
     order_by |-> None]

\* count_star(): COUNT(1)
count_star ==
    [tag |-> "AggregateFunction",
     func_def |-> [kind |-> "BuiltIn", fun |-> "Count"],
     args |-> <<lit(1)>>,
     distinct |-> FALSE,
     filter |-> None,
     order_by |-> None]

(***************************************************************************)
(* The constructors the two macros are invoked for: <<NAME, FUNC>>, in the *)
(* order of the file.                                                      *)
(***************************************************************************)
ScalarFunctions == <<
    <<"abs", "Abs">>,
    <<"acos", "Acos">>,
    <<"acosh", "Acosh">>,
    <<"ascii", "Ascii">>,
    <<"asin", "Asin">>,
    <<"asinh", "Asinh">>,
    <<"atan", "Atan">>,
    <<"atanh", "Atanh">>,
    <<"atan2", "Atan2">>,
    <<"bit_length", "BitLength">>,
    <<"btrim", "Btrim">>,
    <<"cbrt", "Cbrt">>,
    <<"ceil", "Ceil">>,
    <<"character_length", "CharacterLength">>,
    <<"length", "CharacterLength">>,
    <<"char_length", "CharacterLength">>,
    <<"chr", "Chr">>,
    <<"coalesce", "Coalesce">>,
    <<"cos", "Cos">>,
    <<"cosh", "Cosh">>,
    <<"degrees", "Degrees">>,
    <<"exp", "Exp">>,
    <<"factorial", "Factorial">>,
    <<"floor", "Floor">>,
    <<"gcd", "Gcd">>,
    <<"initcap", "InitCap">>,
    <<"iszero", "Iszero">>,
    <<"lcm", "Lcm">>,
    <<"left", "Left">>,
    <<"ln", "Ln">>,
    <<"log", "Log">>,
    <<"log10", "Log10">>,
    <<"log2", "Log2">>,
    <<"lower", "Lower">>,
    <<"lpad", "Lpad">>,
    <<"ltrim", "Ltrim">>,
    <<"md5", "MD5">>,
    <<"nanvl", "Nanvl">>,
    <<"octet_length", "OctetLength">>,
    <<"pi", "Pi">>,
    <<"power", "Power">>,
    <<"pow", "Power">>,
    <<"radians", "Radians">>,
    <<"regexp_match", "RegexpMatch">>,
    <<"regexp_replace", "RegexpReplace">>,
    <<"repeat", "Repeat">>,
    <<"replace", "Replace">>,
    <<"reverse", "Reverse">>,
    <<"right", "Right">>,
    <<"round", "Round">>,
    <<"rpad", "Rpad">>,
    <<"rtrim", "Rtrim">>,
    <<"sha224", "SHA224">>,
    <<"sha256", "SHA256">>,
    <<"sha384", "SHA384">>,
    <<"sha512", "SHA512">>,
    <<"signum", "Signum">>,
    <<"sin", "Sin">>,
    <<"sinh", "Sinh">>,
    <<"split_part", "SplitPart">>,
    <<"sqrt", "Sqrt">>,
    <<"starts_with", "StartsWith">>,
    <<"strpos", "Strpos">>,
    <<"substr", "Substr">>,
    <<"tan", "Tan">>,
    <<"tanh", "Tanh">>,
    <<"to_hex", "ToHex">>,
    <<"now", "Now">>,
    <<"to_timestamp", "ToTimestamp">>,
    <<"to_timestamp_millis", "ToTimestampMillis">>,
    <<"to_timestamp_micros", "ToTimestampMicros">>,
    <<"to_timestamp_seconds", "ToTimestampSeconds">>,
    <<"current_date", "CurrentDate">>,
    <<"current_time", "CurrentTime">>,
    <<"datepart", "DatePart">>,
    <<"date_part", "DatePart">>,
    <<"date_trunc", "DateTrunc">>,
    <<"datetrunc", "DateTrunc">>,
    <<"date_bin", "DateBin">>,
    <<"translate", "Translate">>,
    <<"trim", "Trim">>,
    <<"trunc", "Trunc">>,
    <<"upper", "Upper">>,
    <<"make_array", "MakeArray">>,
    <<"array", "MakeArray">>,
    <<"range", "Range">>,
    <<"uuid", "Uuid">>,
    <<"struct", "Struct">>,
    <<"from_unixtime", "FromUnixtime">>,
    <<"arrow_typeof", "ArrowTypeof">>,
    <<"random", "Random">>,
    <<"array_append", "ArrayAppend">>,
    <<"array_push_back", "ArrayAppend">>,
    <<"list_append", "ArrayAppend">>,
    <<"list_push_back", "ArrayAppend">>,
    <<"array_concat", "ArrayConcat">>,
    <<"array_cat", "ArrayConcat">>,
    <<"array_dims", "ArrayDims">>,
    <<"array_distinct", "ArrayDistinct">>,
    <<"list_distinct", "ArrayDistinct">>,
    <<"list_dims", "ArrayDims">>,
    <<"array_element", "ArrayElement">>,
    <<"array_extract", "ArrayElement">>,
    <<"list_element", "ArrayElement">>,
    <<"list_extract", "ArrayElement">>,
    <<"array_length", "ArrayLength">>,
    <<"list_length", "ArrayLength">>,
    <<"array_has", "ArrayHas">>,
    <<"array_has_all", "ArrayHasAll">>,
    <<"array_has_any", "ArrayHasAny">>,
    <<"array_position", "ArrayPosition">>,
    <<"array_indexof", "ArrayPosition">>,
    <<"list_position", "ArrayPosition">>,
    <<"list_indexof", "ArrayPosition">>,
    <<"array_positions", "ArrayPositions">>,
    <<"list_positions", "ArrayPositions">>,
    <<"array_ndims", "ArrayNdims">>,
    <<"list_ndims", "ArrayNdims">>,
    <<"array_prepend", "ArrayPrepend">>,
    <<"array_push_front", "ArrayPrepend">>,
    <<"list_prepend", "ArrayPrepend">>,
    <<"list_push_front", "ArrayPrepend">>,
    <<"array_pop_back", "ArrayPopBack">>,
    <<"array_pop_front", "ArrayPopFront">>,
    <<"array_remove", "ArrayRemove">>,
    <<"list_remove", "ArrayRemove">>,
    <<"array_remove_n", "ArrayRemoveN">>,
    <<"list_remove_n", "ArrayRemoveN">>,
    <<"array_remove_all", "ArrayRemoveAll">>,
    <<"list_remove_all", "ArrayRemoveAll">>,
    <<"array_repeat", "ArrayRepeat">>,
    <<"array_replace", "ArrayReplace">>,
    <<"list_replace", "ArrayReplace">>,
    <<"array_replace_n", "ArrayReplaceN">>,
    <<"list_replace_n", "ArrayReplaceN">>,
    <<"array_replace_all", "ArrayReplaceAll">>,
    <<"list_replace_all", "ArrayReplaceAll">>,
    <<"array_slice", "ArraySlice">>,
    <<"list_slice", "ArraySlice">>,
    <<"array_intersect", "ArrayIntersect">>,
    <<"list_intersect", "ArrayIntersect">>,
    <<"array_union", "ArrayUnion">>,
    <<"list_union", "ArrayUnion">>,
    <<"array_except", "ArrayExcept">>,
    <<"list_except", "ArrayExcept">>,
    <<"array_resize", "ArrayResize">>,
    <<"list_resize", "ArrayResize">>,
    <<"flatten", "Flatten">>
>>

AggregateFunctions == <<
    <<"approx_distinct", "ApproxDistinct">>,
    <<"approx_median", "ApproxMedian">>,
    <<"approx_percentile_cont", "ApproxPercentileCont">>,
    <<"approx_percentile_cont_with_weight", "ApproxPercentileContWithWeight">>,
    <<"array_agg", "ArrayAgg">>,
    <<"avg", "Avg">>,
    <<"corr", "Correlation">>,
    <<"count", "Count">>,
    <<"covar", "Covariance">>,
    <<"covar_pop", "CovariancePop">>,
    <<"covar_samp", "Covariance">>,
    <<"grouping", "Grouping">>,
    <<"max", "Max">>,
    <<"mean", "Avg">>,
    <<"median", "Median">>,
    <<"min", "Min">>,
    <<"sum", "Sum">>,
    <<"stddev", "Stddev">>,
    <<"stddev_pop", "StddevPop">>,
    <<"stddev_samp", "Stddev">>,
    <<"var", "Variance">>,
    <<"var_pop", "VariancePop">>,
    <<"var_samp", "Variance">>,
    <<"regr_avgx", "RegrAvgx">>,
    <<"regr_avgy", "RegrAvgy">>,
    <<"regr_count", "RegrCount">>,
    <<"regr_intercept", "RegrIntercept">>,
    <<"regr_r2", "RegrR2">>,
    <<"regr_slope", "RegrSlope">>,
    <<"regr_sxx", "RegrSXX">>,
    <<"regr_sxy", "RegrSXY">>,
    <<"regr_syy", "RegrSYY">>,
    <<"first_value", "FirstValue">>,
    <<"last_value", "LastValue">>,
    <<"bit_and", "BitAnd">>,
    <<"bit_or", "BitOr">>,
    <<"bit_xor", "BitXor">>,
    <<"bool_and", "BoolAnd">>,
    <<"bool_or", "BoolOr">>
>>

ScalarNames == {ScalarFunctions[i][1] : i \in DOMAIN ScalarFunctions}
AggregateNames == {AggregateFunctions[i][1] : i \in DOMAIN AggregateFunctions}

\* ScalarFuncOf with length generated for the byte length
ScalarFuncOf_length_in_bytes(name) ==
    IF name = "length"
    THEN "OctetLength"
    ELSE ScalarFunctions[CHOOSE i \in DOMAIN ScalarFunctions :
                             ScalarFunctions[i][1] = name][2]

\* the FUNC the constructor called NAME was generated with
ScalarFuncOf(name) ==
    ScalarFunctions[CHOOSE i \in DOMAIN ScalarFunctions :
                        ScalarFunctions[i][1] = name][2]

AggregateFuncOf(name) ==
    AggregateFunctions[CHOOSE i \in DOMAIN AggregateFunctions :
                           AggregateFunctions[i][1] = name][2]

(***************************************************************************)
(* array_to_string and its aliases.                                        *)
(***************************************************************************)
array_to_string(expr, delim) ==
    [tag |-> "ScalarFunction",
     func_def |-> [kind |-> "UDF", fun |-> "array_to_string"],
     args |-> <<expr, delim>>]

array_join(expr, delim) == array_to_string(expr, delim)

list_to_string(expr, delim) == array_to_string(expr, delim)

list_join(expr, delim) == array_to_string(expr, delim)

(***************************************************************************)
(* in_list, and what the membership predicate it builds evaluates to.      *)
(***************************************************************************)
\* in_list with the negated flag left out of the node
in_list_never_negated(expr, value, negated) ==
    [tag |-> "InList", expr |-> expr, list |-> value, negated |-> FALSE]

\* in_list(expr, value, negated): datafusion_expr::in_list of the
\* expression, the values in the order given and the flag
in_list(expr, value, negated) ==
    [tag |-> "InList", expr |-> expr, list |-> value, negated |-> negated]

\* the rows a predicate is evaluated on: a value for every column
Rows == [{"a", "b"} -> {0, 1}]

\* the value of a column, an integer literal or an alias of one on a row
RECURSIVE Eval(_, _)
Eval(e, row) ==
    CASE e.tag = "Column" -> row[e.name]
      [] e.tag = "Literal" -> e.value.Int32
      [] e.tag = "Alias" -> Eval(e.expr, row)

\* the value of an InList node on a row: whether the expression's value is
\* among the values of the list, negated when the node says so
eval_in_list(node, row) ==
    LET member == \E i \in DOMAIN node.list :
                      Eval(node.list[i], row) = Eval(node.expr, row)
    IN  IF node.negated THEN ~member ELSE member

(***************************************************************************)
(* concat and concat_ws, and what the calls they build evaluate to.        *)
(***************************************************************************)
\* lit(value) of a Rust String: a literal of type Utf8
lit_str(value) == [tag |-> "Literal", value |-> [Utf8 |-> value]]

\* the null literal, as a caller can pass it
NullLiteral == [tag |-> "Literal", value |-> [Null |-> TRUE]]

\* concat(args): datafusion_expr::concat of the arguments
concat(args) ==
    [tag |-> "ScalarFunction",
     func_def |-> [kind |-> "BuiltIn", fun |-> "Concat"],
     args |-> args]

\* concat_ws with the separator put behind the arguments
concat_ws_separator_last(sep, args) ==
    [tag |-> "ScalarFunction",
     func_def |-> [kind |-> "BuiltIn", fun |-> "ConcatWithSeparator"],
     args |-> args \o <<lit_str(sep)>>]

\* concat_ws(sep, args): datafusion_expr::concat_ws of the separator, made
\* a literal, and the arguments, the separator first
concat_ws(sep, args) ==
    [tag |-> "ScalarFunction",
     func_def |-> [kind |-> "BuiltIn", fun |-> "ConcatWithSeparator"],
     args |-> <<lit_str(sep)>> \o args]

IsNull(e) == e.tag = "Literal" /\ "Null" \in DOMAIN e.value

IsText(e) == e.tag = "Literal" /\ "Utf8" \in DOMAIN e.value

\* the arguments that are not null, in their order
NonNull(args) == SelectSeq(args, LAMBDA e : ~IsNull(e))

\* the texts joined by the separator
RECURSIVE Joined(_, _)
Joined(texts, sep) ==
    IF Len(texts) = 0
    THEN ""
    ELSE IF Len(texts) = 1
         THEN texts[1].value.Utf8
         ELSE texts[1].value.Utf8 \o sep \o Joined(Tail(texts), sep)

\* "Concatenates the text representations of all the arguments. NULL
\* arguments are ignored."
eval_concat(node) == Some(Joined(NonNull(node.args), ""))

\* "Concatenates all but the first argument, with separators. The first
\* argument is used as the separator string, and should not be NULL. Other
\* NULL arguments are ignored."
eval_concat_ws(node) ==
    IF Len(node.args) = 0 \/ ~IsText(node.args[1])
    THEN None
    ELSE Some(Joined(NonNull(Tail(node.args)), node.args[1].value.Utf8))

(***************************************************************************)
(* isnan, nullif, encode, decode and case.                                 *)
(***************************************************************************)
\* the call expr_fn of the functions crate builds for one of its functions
expr_fn(name, args) ==
    [tag |-> "ScalarFunction",
     func_def |-> [kind |-> "UDF", fun |-> name],
     args |-> args]

isnan(expr) == expr_fn("isnan", <<expr>>)

nullif(expr1, expr2) == expr_fn("nullif", <<expr1, expr2>>)

encode(input, encoding) == expr_fn("encode", <<input, encoding>>)

decode(input, encoding) == expr_fn("decode", <<input, encoding>>)

\* case(expr): a builder of a CASE statement comparing with expr, with no
\* branch yet
case(expr) ==
    [tag |-> "CaseBuilder", expr |-> Some(expr), when_then_expr |-> <<>>,
     else_expr |-> None]

(***************************************************************************)
(* digest.                                                                 *)
(***************************************************************************)
\* the algorithms the doc comment of digest names
StandardAlgorithms ==
    {"md5", "sha224", "sha256", "sha384", "sha512", "blake2s", "blake2b",
     "blake3"}

\* digest checking the method when the call is built, and falling back to
\* md5 for an algorithm it does not know
digest_validating(value, method) ==
    [tag |-> "ScalarFunction",
     func_def |-> [kind |-> "BuiltIn", fun |-> "Digest"],
     args |-> <<value,
                IF IsText(method) /\ method.value.Utf8 \in StandardAlgorithms
                THEN method
                ELSE lit_str("md5")>>]

\* digest(value, method): datafusion_expr::digest of the two expressions
digest(value, method) ==
    [tag |-> "ScalarFunction",
     func_def |-> [kind |-> "BuiltIn", fun |-> "Digest"],
     args |-> <<value, method>>]

(***************************************************************************)
(* Window functions.                                                       *)
(***************************************************************************)
\* the names the engine's window functions and aggregates are known by
BuiltInWindowFunctions ==
    {"row_number", "rank", "dense_rank", "percent_rank", "cume_dist", "ntile",
     "lag", "lead", "first_value", "last_value", "nth_value"}

BuiltInAggregates == {"sum", "count", "min", "max", "avg"}

\* find_df_window_func(name): the engine's window functions, then its aggregates
find_df_window_func(name) ==
    IF name \in BuiltInWindowFunctions
    THEN Some([kind |-> "BuiltInWindowFunction", name |-> name])
    ELSE IF name \in BuiltInAggregates
         THEN Some([kind |-> "AggregateFunction", name |-> name])
         ELSE None

\* ctx.udaf(name): the aggregate registered under name in a session whose
\* registry holds reg, or the registry's error
udaf(reg, name) ==
    IF name \in reg
    THEN [ok |-> TRUE, udaf |-> name]
    ELSE [ok |-> FALSE, err |-> "There is no UDAF named"]

\* PyWindowFrame::new(units, start_bound, end_bound)
PyWindowFrame_new(units, start_bound, end_bound) ==
    IF units \in {"rows", "range", "groups"}
    THEN [ok |-> TRUE,
          frame |-> [unit |-> CASE units = "rows" -> "ROWS"
                                [] units = "range" -> "RANGE"
                                [] units = "groups" -> "GROUPS",
                     start |-> start_bound,
                     end |-> end_bound]]
    ELSE [ok |-> FALSE, err |-> "unsupported units"]

\* window_fun with the session's registry asked before the builtin lookup
window_fun_registry_first(name, ctx, reg) ==
    LET found == udaf(reg, name)
        builtin == find_df_window_func(name)
    IN  IF ctx.some /\ found.ok
        THEN [fun |-> Some([kind |-> "AggregateUDF", name |-> found.udaf]),
              udaf_calls |-> 1]
        ELSE [fun |-> builtin, udaf_calls |-> IF ctx.some THEN 1 ELSE 0]

\* window_fun without the fallback to the session's registry
window_fun_builtin_only(name, ctx, reg) ==
    [fun |-> find_df_window_func(name), udaf_calls |-> 0]

\* the first step of window(): the definition name resolves to, and how often
\* the session's registry was queried for it. find_df_window_func comes
\* first; or_else runs its closure only when that found nothing, and_then
\* only when a session was given; ok() drops the registry's error
window_fun(name, ctx, reg) ==
    LET builtin == find_df_window_func(name)
    IN  IF builtin.some
        THEN [fun |-> builtin, udaf_calls |-> 0]
        ELSE IF ctx.some
             THEN LET found == udaf(reg, name)
                  IN  [fun |-> IF found.ok
                               THEN Some([kind |-> "AggregateUDF",
                                          name |-> found.udaf])
                               ELSE None,
                       udaf_calls |-> 1]
             ELSE [fun |-> None, udaf_calls |-> 0]

\* the error window() returns when the name did not resolve
window_not_found == Err("Common", "window function not found")

\* default_window_frame with the two bounds exchanged
default_window_frame_swapped == PyWindowFrame_new("rows", Some(0), None)

\* the frame window() builds when the caller gives none
default_window_frame == PyWindowFrame_new("rows", None, Some(0))

\* window_node with an omitted order-by list taking the partition-by list
window_node_order_from_partition(fun, args, partition_by, order_by_, window_frame) ==
    [tag |-> "WindowFunction",
     fun |-> fun,
     args |-> args,
     partition_by |-> unwrap_or(partition_by, <<>>),
     order_by |-> unwrap_or(order_by_, unwrap_or(partition_by, <<>>)),
     window_frame |-> window_frame]

\* the node window() returns for a resolved definition and a frame
window_node(fun, args, partition_by, order_by_, window_frame) ==
    [tag |-> "WindowFunction",
     fun |-> fun,
     args |-> args,
     partition_by |-> unwrap_or(partition_by, <<>>),
     order_by |-> unwrap_or(order_by_, <<>>),
     window_frame |-> window_frame]

\* window(name, args, partition_by, order_by, window_frame, ctx), called
\* with a session whose registry holds reg; unwrap() of a frame that could
\* not be built panics
window(name, args, partition_by, order_by_, window_frame, ctx, reg) ==
    LET fun == window_fun(name, ctx, reg).fun
    IN  IF ~fun.some
        THEN window_not_found
        ELSE IF window_frame.some
             THEN Ok(window_node(fun.v, args, partition_by, order_by_,
                                 window_frame.v))
             ELSE IF default_window_frame.ok
                  THEN Ok(window_node(fun.v, args, partition_by, order_by_,
                                      default_window_frame.frame))
                  ELSE [status |-> "panic"]

\* a constructor scalar_function! generated, called by its name
scalar_call(name, args) == Ok(scalar_function(ScalarFuncOf(name), args))

\* aggregate_call with an aggregate the session has registered under the
\* same name taking the place of the builtin one
aggregate_call_udaf_first(name, args, distinct) ==
    IF name \in registry
    THEN Ok([tag |-> "AggregateUDF", fun |-> name, args |-> args])
    ELSE Ok(aggregate_function(AggregateFuncOf(name), args,
                               distinct_default(distinct)))

\* a constructor aggregate_function! generated, called by its name
aggregate_call(name, args, distinct) ==
    Ok(aggregate_function(AggregateFuncOf(name), args,
                          distinct_default(distinct)))

(***************************************************************************)
(* The inputs the calls are drawn from.                                    *)
(***************************************************************************)
Bools == {TRUE, FALSE}
OptBools == {None} \cup {Some(b) : b \in Bools}

\* expressions given as arguments
ArgExprs == {col("a"), lit(1)}
ArgLists == SeqsUpTo(ArgExprs, MaxLen)

\* expressions given as partition-by keys
PartitionExprs == {col("a"), col("b")}
PartitionLists == SeqsUpTo(PartitionExprs, MaxLen)

\* sort expressions given as order-by keys
OrderExprs ==
    {order_by(col("a"), None, None), order_by(col("b"), Some(FALSE), Some(FALSE))}
OrderLists == SeqsUpTo(OrderExprs, MaxLen)

OptOf(S) == {None} \cup {Some(x) : x \in S}

\* display names given to alias
AliasNames == {"a", "b"}

\* expressions wrapped in at most d Alias nodes
RECURSIVE AliasedExprs(_)
AliasedExprs(d) ==
    IF d = 0
    THEN ArgExprs
    ELSE LET inner == AliasedExprs(d - 1)
         IN  inner \cup {alias(e, n) : e \in inner, n \in AliasNames}

ExprInputs == AliasedExprs(MaxAliasDepth)

\* texts and the null given to concat and concat_ws, and the separators
TextExprs == {lit_str("a"), lit_str("b"), lit_str("x"), NullLiteral}
TextLists == SeqsUpTo(TextExprs, MaxConcatArgs)
Separators == {",", "-"}

\* methods given to digest: two standard algorithms, an algorithm digest
\* does not know, and an expression whose value no one knows yet
MethodExprs == {lit_str("md5"), lit_str("blake3"), lit_str("crc32"), col("a")}

\* names col is called with
ColumnNames == {"a", "b"}

\* names window is called with: a window function and an aggregate of the
\* engine, a name only a session can know, and a name nothing knows
WindowNames == {"row_number", "sum", "my_udaf", "not_a_real_fn"}

\* names a session may have registered an aggregate under
UdafNames == {"sum", "my_udaf"}

\* a session handle, or none
Sessions == {None, Some([session |-> "ctx"])}

\* frames a caller may supply, coherent or not
FrameInputs ==
    {PyWindowFrame_new("rows", Some(1), Some(1)).frame,
     PyWindowFrame_new("range", None, None).frame,
     PyWindowFrame_new("groups", Some(1), Some(0)).frame}

(***************************************************************************)
(* init_module.                                                            *)
(***************************************************************************)
\* the builders the file defines by hand, in the order of the file
NamedBuilders ==
    {"isnan", "nullif", "encode", "decode", "array_to_string", "array_join",
     "list_to_string", "list_join", "in_list", "digest", "concat", "concat_ws",
     "order_by", "alias", "col", "count_star", "case", "window"}

\* the functions init_module registers, in the order of its statements
RegistrationOrder == <<
    "abs", "acos", "acosh", "approx_distinct",
    "alias", "approx_median", "approx_percentile_cont", "approx_percentile_cont_with_weight",
    "array", "range", "array_agg", "arrow_typeof",
    "ascii", "asin", "asinh", "atan",
    "atanh", "atan2", "avg", "bit_length",
    "btrim", "cbrt", "ceil", "character_length",
    "chr", "char_length", "coalesce", "case",
    "col", "concat_ws", "concat", "corr",
    "cos", "cosh", "count", "count_star",
    "covar", "covar_pop", "covar_samp", "current_date",
    "current_time", "degrees", "date_bin", "datepart",
    "date_part", "datetrunc", "date_trunc", "digest",
    "exp", "factorial", "floor", "from_unixtime",
    "gcd", "grouping", "in_list", "initcap",
    "isnan", "iszero", "lcm", "left",
    "length", "ln", "log", "log10",
    "log2", "lower", "lpad", "ltrim",
    "max", "make_array", "md5", "mean",
    "median", "min", "nanvl", "now",
    "nullif", "octet_length", "order_by", "pi",
    "power", "pow", "radians", "random",
    "regexp_match", "regexp_replace", "repeat", "replace",
    "reverse", "right", "round", "rpad",
    "rtrim", "sha224", "sha256", "sha384",
    "sha512", "signum", "sin", "sinh",
    "split_part", "sqrt", "starts_with", "stddev",
    "stddev_pop", "stddev_samp", "strpos", "struct",
    "substr", "sum", "tan", "tanh",
    "to_hex", "to_timestamp", "to_timestamp_millis", "to_timestamp_micros",
    "to_timestamp_seconds", "translate", "trim", "trunc",
    "upper", "uuid", "var", "var_pop",
    "var_samp", "window", "regr_avgx", "regr_avgy",
    "regr_count", "regr_intercept", "regr_r2", "regr_slope",
    "regr_sxx", "regr_sxy", "regr_syy", "first_value",
    "last_value", "bit_and", "bit_or", "bit_xor",
    "bool_and", "bool_or", "encode", "decode",
    "array_append", "array_push_back", "list_append", "list_push_back",
    "array_concat", "array_cat", "array_dims", "array_distinct",
    "list_distinct", "list_dims", "array_element", "array_extract",
    "list_element", "list_extract", "array_length", "list_length",
    "array_has", "array_has_all", "array_has_any", "array_position",
    "array_indexof", "list_position", "list_indexof", "array_positions",
    "list_positions", "array_to_string", "array_intersect", "list_intersect",
    "array_union", "list_union", "array_except", "list_except",
    "array_resize", "list_resize", "array_join", "list_to_string",
    "list_join", "array_ndims", "list_ndims", "array_prepend",
    "array_push_front", "list_prepend", "list_push_front", "array_pop_back",
    "array_pop_front", "array_remove", "list_remove", "array_remove_n",
    "list_remove_n", "array_remove_all", "list_remove_all", "array_repeat",
    "array_replace", "list_replace", "array_replace_n", "list_replace_n",
    "array_replace_all", "list_replace_all", "array_slice", "list_slice",
    "flatten"
>>

\* m.add_wrapped(wrap_pyfunction!(name)): the module with the function
\* added, or the module as it was and an error when the host refuses
add_wrapped(m, name, accepted) ==
    IF accepted
    THEN [module |-> Append(m, name), ok |-> TRUE, err |-> ""]
    ELSE [module |-> m, ok |-> FALSE, err |-> name]

\* the ? after a registration, with failures ignored
try_ignoring_errors(st, added) ==
    [next |-> st.next + 1, status |-> "running", error |-> ""]

\* the ? after a registration: go on to the next statement, or return the
\* error at once
try(st, added) ==
    IF added.ok
    THEN [next |-> st.next + 1, status |-> "running", error |-> ""]
    ELSE [next |-> st.next, status |-> "err", error |-> added.err]

\* init_module before its first statement, and after its Ok(())
InitStarted == [next |-> 1, status |-> "running", error |-> ""]
InitDone ==
    [next |-> Len(RegistrationOrder) + 1, status |-> "ok", error |-> ""]

(***************************************************************************)
(* Calls by name. The catalog of constructors is the module init_module    *)
(* has filled; a name is resolved by the host's attribute lookup on it,    *)
(* and only a name found there reaches a constructor of this file.         *)
(***************************************************************************)
\* the attribute name of module m, when init_module registered it
module_getattr(m, name) ==
    IF \E i \in DOMAIN m : m[i] = name THEN Some(name) ELSE None

\* module_call resolving a name the module lacks in the session's registry
module_call_with_fallback(m, name, args, distinct) ==
    IF ~module_getattr(m, name).some
    THEN IF name \in registry
         THEN Ok([tag |-> "AggregateUDF", name |-> name, args |-> args])
         ELSE Err("AttributeError", "module has no attribute")
    ELSE IF name \in ScalarNames
         THEN scalar_call(name, args)
         ELSE aggregate_call(name, args, distinct)

\* functions.name(*args) or functions.name(*args, distinct=..) for the name
\* of a scalar or aggregate function: the constructor registered under the
\* name, or the host's attribute error, raised before any code of this file
module_call(m, name, args, distinct) ==
    IF ~module_getattr(m, name).some
    THEN Err("AttributeError", "module has no attribute")
    ELSE IF name \in ScalarNames
         THEN scalar_call(name, args)
         ELSE aggregate_call(name, args, distinct)

\* names looked up in the module: a scalar and an aggregate constructor, a
\* name only a session knows, and a name nothing knows
CatalogProbes == {"pow", "mean", "my_udaf", "not_a_real_fn"}

(***************************************************************************)
(* The state machine.                                                      *)
(***************************************************************************)
NoCall == [fn |-> "none"]
NoResult == [status |-> "none"]

Init ==
    /\ registry \in SUBSET UdafNames
    /\ call = NoCall
    /\ result = NoResult
    /\ udaf_lookups = 0
    /\ module = RegistrationOrder
    /\ init = InitDone
    /\ registry_before = registry
    /\ again = NoResult

\* a call of window
Window ==
    /\ call = NoCall
    /\ \E name \in WindowNames, args \in ArgLists,
          partition_by \in OptOf(PartitionLists), order_by_ \in OptOf(OrderLists),
          window_frame \in OptOf(FrameInputs), ctx \in Sessions :
        /\ call' = [fn |-> "window", name |-> name, args |-> args,
                    partition_by |-> partition_by, order_by |-> order_by_,
                    window_frame |-> window_frame, ctx |-> ctx]
        /\ result' = window(name, args, partition_by, order_by_, window_frame,
                            ctx, registry)
        /\ udaf_lookups' =
               udaf_lookups + window_fun(name, ctx, registry).udaf_calls
    /\ UNCHANGED <<registry, module, init, registry_before, again>>

\* a call of a constructor scalar_function! generated
Scalar ==
    /\ call = NoCall
    /\ \E name \in ScalarNames, args \in ArgLists :
        /\ call' = [fn |-> name, kind |-> "scalar", args |-> args]
        /\ result' = scalar_call(name, args)
    /\ UNCHANGED <<registry, udaf_lookups, module, init, registry_before, again>>

\* a call of a constructor aggregate_function! generated
Aggregate ==
    /\ call = NoCall
    /\ \E name \in AggregateNames, args \in ArgLists, distinct \in OptBools :
        /\ call' = [fn |-> name, kind |-> "aggregate", args |-> args,
                    distinct |-> distinct]
        /\ result' = aggregate_call(name, args, distinct)
    /\ UNCHANGED <<registry, udaf_lookups, module, init, registry_before, again>>

\* a scalar or aggregate function called by a name looked up in the module;
\* a scalar constructor takes no distinct keyword
ModuleCall ==
    /\ call = NoCall
    /\ \E name \in CatalogProbes, args \in ArgLists, distinct \in OptBools :
        /\ name \in ScalarNames => ~distinct.some
        /\ call' = [fn |-> name, kind |-> "by_name", args |-> args,
                    distinct |-> distinct]
        /\ result' = module_call(module, name, args, distinct)
    /\ UNCHANGED <<registry, udaf_lookups, module, init, registry_before, again>>

\* a call of array_to_string or of one of its aliases
ArrayToString ==
    /\ call = NoCall
    /\ \E expr \in ArgExprs, delim \in ArgExprs :
        \/ /\ call' = [fn |-> "array_to_string", expr |-> expr, delim |-> delim]
           /\ result' = Ok(array_to_string(expr, delim))
        \/ /\ call' = [fn |-> "array_join", expr |-> expr, delim |-> delim]
           /\ result' = Ok(array_join(expr, delim))
        \/ /\ call' = [fn |-> "list_to_string", expr |-> expr, delim |-> delim]
           /\ result' = Ok(list_to_string(expr, delim))
        \/ /\ call' = [fn |-> "list_join", expr |-> expr, delim |-> delim]
           /\ result' = Ok(list_join(expr, delim))
    /\ UNCHANGED <<registry, udaf_lookups, module, init, registry_before, again>>

\* a call of in_list
InList ==
    /\ call = NoCall
    /\ \E expr \in ExprInputs, value \in ArgLists, negated \in Bools :
        /\ call' = [fn |-> "in_list", expr |-> expr, value |-> value,
                    negated |-> negated]
        /\ result' = Ok(in_list(expr, value, negated))
    /\ UNCHANGED <<registry, udaf_lookups, module, init, registry_before, again>>

\* a call of concat
Concat ==
    /\ call = NoCall
    /\ \E args \in TextLists :
        /\ call' = [fn |-> "concat", args |-> args]
        /\ result' = Ok(concat(args))
    /\ UNCHANGED <<registry, udaf_lookups, module, init, registry_before, again>>

\* a call of concat_ws
ConcatWs ==
    /\ call = NoCall
    /\ \E sep \in Separators, args \in TextLists :
        /\ call' = [fn |-> "concat_ws", sep |-> sep, args |-> args]
        /\ result' = Ok(concat_ws(sep, args))
    /\ UNCHANGED <<registry, udaf_lookups, module, init, registry_before, again>>

\* a call of digest
Digest ==
    /\ call = NoCall
    /\ \E value \in ExprInputs, method \in MethodExprs :
        /\ call' = [fn |-> "digest", value |-> value, method |-> method]
        /\ result' = Ok(digest(value, method))
    /\ UNCHANGED <<registry, udaf_lookups, module, init, registry_before, again>>

\* a call of isnan
IsNan ==
    /\ call = NoCall
    /\ \E expr \in ArgExprs :
        /\ call' = [fn |-> "isnan", expr |-> expr]
        /\ result' = Ok(isnan(expr))
    /\ UNCHANGED <<registry, udaf_lookups, module, init, registry_before, again>>

\* a call of nullif
NullIf ==
    /\ call = NoCall
    /\ \E expr1 \in ArgExprs, expr2 \in ArgExprs :
        /\ call' = [fn |-> "nullif", expr1 |-> expr1, expr2 |-> expr2]
        /\ result' = Ok(nullif(expr1, expr2))
    /\ UNCHANGED <<registry, udaf_lookups, module, init, registry_before, again>>

\* a call of encode
Encode ==
    /\ call = NoCall
    /\ \E input \in ArgExprs, encoding \in ArgExprs :
        /\ call' = [fn |-> "encode", input |-> input, encoding |-> encoding]
        /\ result' = Ok(encode(input, encoding))
    /\ UNCHANGED <<registry, udaf_lookups, module, init, registry_before, again>>

\* a call of decode
Decode ==
    /\ call = NoCall
    /\ \E input \in ArgExprs, encoding \in ArgExprs :
        /\ call' = [fn |-> "decode", input |-> input, encoding |-> encoding]
        /\ result' = Ok(decode(input, encoding))
    /\ UNCHANGED <<registry, udaf_lookups, module, init, registry_before, again>>

\* a call of col
Col ==
    /\ call = NoCall
    /\ \E name \in ColumnNames :
        /\ call' = [fn |-> "col", name |-> name]
        /\ result' = Ok(col(name))
    /\ UNCHANGED <<registry, udaf_lookups, module, init, registry_before, again>>

\* a call of case
Case ==
    /\ call = NoCall
    /\ \E expr \in ExprInputs :
        /\ call' = [fn |-> "case", expr |-> expr]
        /\ result' = Ok(case(expr))
    /\ UNCHANGED <<registry, udaf_lookups, module, init, registry_before, again>>

\* a call of order_by
OrderBy ==
    /\ call = NoCall
    /\ \E expr \in ExprInputs, asc \in OptBools, nulls_first \in OptBools :
        /\ call' = [fn |-> "order_by", expr |-> expr, asc |-> asc,
                    nulls_first |-> nulls_first]
        /\ result' = Ok(order_by(expr, asc, nulls_first))
    /\ UNCHANGED <<registry, udaf_lookups, module, init, registry_before, again>>

\* a call of alias
AliasCall ==
    /\ call = NoCall
    /\ \E expr \in ExprInputs, name \in AliasNames :
        /\ call' = [fn |-> "alias", expr |-> expr, name |-> name]
        /\ result' = Ok(alias(expr, name))
    /\ UNCHANGED <<registry, udaf_lookups, module, init, registry_before, again>>

\* a call of count_star
CountStar ==
    /\ call = NoCall
    /\ call' = [fn |-> "count_star"]
    /\ result' = Ok(count_star)
    /\ UNCHANGED <<registry, udaf_lookups, module, init, registry_before, again>>

Next ==
    \/ Window
    \/ Scalar
    \/ Aggregate
    \/ ModuleCall
    \/ ArrayToString
    \/ InList
    \/ Concat
    \/ ConcatWs
    \/ Digest
    \/ OrderBy
    \/ AliasCall
    \/ CountStar
    \/ IsNan
    \/ NullIf
    \/ Encode
    \/ Decode
    \/ Col
    \/ Case

Spec == Init /\ [][Next]_vars

(***************************************************************************)
(* The same call made twice.                                               *)
(***************************************************************************)
\* the builder of call c applied to the inputs of c, with a session whose
\* registry holds reg
Invoke(c, reg) ==
    IF "kind" \in DOMAIN c
    THEN CASE c.kind = "scalar" -> scalar_call(c.fn, c.args)
           [] c.kind = "aggregate" -> aggregate_call(c.fn, c.args, c.distinct)
           [] c.kind = "by_name" ->
                  module_call(module, c.fn, c.args, c.distinct)
    ELSE CASE c.fn = "window" ->
                  window(c.name, c.args, c.partition_by, c.order_by,
                         c.window_frame, c.ctx, reg)
           [] c.fn = "array_to_string" -> Ok(array_to_string(c.expr, c.delim))
           [] c.fn = "array_join" -> Ok(array_join(c.expr, c.delim))
           [] c.fn = "list_to_string" -> Ok(list_to_string(c.expr, c.delim))
           [] c.fn = "list_join" -> Ok(list_join(c.expr, c.delim))
           [] c.fn = "in_list" -> Ok(in_list(c.expr, c.value, c.negated))
           [] c.fn = "concat" -> Ok(concat(c.args))
           [] c.fn = "concat_ws" -> Ok(concat_ws(c.sep, c.args))
           [] c.fn = "digest" -> Ok(digest(c.value, c.method))
           [] c.fn = "order_by" -> Ok(order_by(c.expr, c.asc, c.nulls_first))
           [] c.fn = "alias" -> Ok(alias(c.expr, c.name))
           [] c.fn = "count_star" -> Ok(count_star)
           [] c.fn = "isnan" -> Ok(isnan(c.expr))
           [] c.fn = "nullif" -> Ok(nullif(c.expr1, c.expr2))
           [] c.fn = "encode" -> Ok(encode(c.input, c.encoding))
           [] c.fn = "decode" -> Ok(decode(c.input, c.encoding))
           [] c.fn = "col" -> Ok(col(c.name))
           [] c.fn = "case" -> Ok(case(c.expr))

\* the session registers an aggregate between the two calls
RegisterUdaf ==
    /\ call # NoCall
    /\ again = NoResult
    /\ \E name \in UdafNames \ registry : registry' = registry \cup {name}
    /\ UNCHANGED <<call, result, udaf_lookups, module, init, registry_before,
                   again>>

\* the call made again, with the inputs it had
Again ==
    /\ call # NoCall
    /\ again = NoResult
    /\ again' = Invoke(call, registry)
    /\ udaf_lookups' =
           IF call.fn = "window"
           THEN udaf_lookups
                    + window_fun(call.name, call.ctx, registry).udaf_calls
           ELSE udaf_lookups
    /\ UNCHANGED <<registry, call, result, module, init, registry_before>>

NextTwice ==
    \/ Next
    \/ RegisterUdaf
    \/ Again

SpecTwice == Init /\ [][NextTwice]_vars

(***************************************************************************)
(* The run of init_module.                                                 *)
(***************************************************************************)
InitModule ==
    /\ registry = {}
    /\ call = NoCall
    /\ result = NoResult
    /\ udaf_lookups = 0
    /\ module = <<>>
    /\ init = InitStarted
    /\ registry_before = {}
    /\ again = NoResult

\* one statement m.add_wrapped(wrap_pyfunction!(..))?
AddWrapped ==
    /\ init.status = "running"
    /\ init.next <= Len(RegistrationOrder)
    /\ \E accepted \in Bools :
        LET added == add_wrapped(module, RegistrationOrder[init.next], accepted)
        IN  /\ module' = added.module
            /\ init' = try(init, added)
    /\ UNCHANGED <<registry, call, result, udaf_lookups, registry_before, again>>

\* the closing Ok(())
ReturnOk ==
    /\ init.status = "running"
    /\ init.next = Len(RegistrationOrder) + 1
    /\ init' = InitDone
    /\ UNCHANGED <<registry, call, result, udaf_lookups, module,
                   registry_before, again>>

NextInit ==
    \/ AddWrapped
    \/ ReturnOk

SpecInit == InitModule /\ [][NextInit]_vars

(***************************************************************************)
(* Properties of window().                                                 *)
(***************************************************************************)
WindowCalled == call.fn = "window"

\* the engine knows the name window was called with
IsBuiltin == find_df_window_func(call.name).some

\* the session given to window has an aggregate registered under the name
RegistryHit == call.ctx.some /\ udaf(registry, call.name).ok

\* C1: window resolves the name in a fixed order, first match wins: a name
\* the engine knows yields the engine's definition and the session's
\* registry is not queried, also when the session has an aggregate of that
\* name; the registry is queried only when the builtin lookup found nothing
\* and a session was given, and a hit there yields an AggregateUDF definition.
C1_ResolutionOrder ==
    WindowCalled =>
        /\ IsBuiltin =>
            /\ result.status = "ok"
            /\ result.node.fun = find_df_window_func(call.name).v
            /\ result.node.fun.kind \in {"BuiltInWindowFunction", "AggregateFunction"}
            /\ udaf_lookups = 0
        /\ udaf_lookups > 0 => ~IsBuiltin /\ call.ctx.some
        /\ ~IsBuiltin /\ call.ctx.some => udaf_lookups = 1
        /\ ~IsBuiltin /\ RegistryHit =>
            /\ result.status = "ok"
            /\ result.node.fun = [kind |-> "AggregateUDF", name |-> call.name]

\* window was called with the name of an engine aggregate while the session
\* given has a user-defined aggregate registered under the same name
C1_Witness ==
    /\ WindowCalled
    /\ IsBuiltin
    /\ RegistryHit
    /\ result.status = "ok"

\* C2: window fails, with the message "window function not found" and no
\* node, exactly when the name is no builtin and either no session is given
\* or the session's registry lookup fails, whatever args, partition_by,
\* order_by and window_frame are; the registry's own error is not the one
\* returned.
C2_NotFoundExactly ==
    WindowCalled =>
        LET unresolved == ~IsBuiltin /\ ~RegistryHit
        IN  /\ unresolved <=> result.status = "err"
            /\ ~unresolved <=> result.status = "ok"
            /\ result.status = "err" =>
                /\ result = [status |-> "err", kind |-> "Common",
                             msg |-> "window function not found"]
                /\ "node" \notin DOMAIN result
                /\ call.ctx.some => result.msg # udaf(registry, call.name).err

\* window was given a session whose registry does not know the name, and
\* a frame, and failed
C2_Witness ==
    /\ WindowCalled
    /\ ~IsBuiltin
    /\ call.ctx.some
    /\ ~udaf(registry, call.name).ok
    /\ call.window_frame.some
    /\ Len(call.args) > 0
    /\ result.status = "err"

\* C3: window called without a frame, for a name that resolves, returns a
\* node with the default frame: unit ROWS, start bound unspecified, end
\* bound offset 0.
C3_DefaultFrame ==
    WindowCalled /\ ~call.window_frame.some /\ (IsBuiltin \/ RegistryHit) =>
        /\ result.status = "ok"
        /\ result.node.tag = "WindowFunction"
        /\ result.node.window_frame =
               [unit |-> "ROWS", start |-> None, end |-> Some(0)]

\* window resolved a user-defined aggregate and was given no frame
C3_Witness ==
    /\ WindowCalled
    /\ ~call.window_frame.some
    /\ ~IsBuiltin
    /\ RegistryHit
    /\ result.status = "ok"

\* C4: a successful window call returns a WindowFunction node whose args,
\* partition-by and order-by lists are the supplied lists in the supplied
\* order, an omitted list being the empty sequence, and whose frame is the
\* supplied frame unchanged; no frame makes the construction fail.
C4_InputsCarried ==
    WindowCalled =>
        /\ result.status \in {"ok", "err"}
        /\ call.window_frame.some /\ (IsBuiltin \/ RegistryHit) =>
               result.status = "ok"
        /\ result.status = "ok" =>
            /\ result.node.tag = "WindowFunction"
            /\ result.node.args = call.args
            /\ result.node.partition_by =
                   (IF call.partition_by.some THEN call.partition_by.v ELSE <<>>)
            /\ result.node.order_by =
                   (IF call.order_by.some THEN call.order_by.v ELSE <<>>)
            /\ call.window_frame.some =>
                   result.node.window_frame = call.window_frame.v

\* window succeeded with two different arguments, two different partition
\* keys, no order-by list and a GROUPS frame of start offset 1 and end
\* offset 0, which nothing validated
C4_Witness ==
    /\ WindowCalled
    /\ result.status = "ok"
    /\ Len(call.args) = 2 /\ call.args[1] # call.args[2]
    /\ call.partition_by.some
    /\ Len(call.partition_by.v) = 2
    /\ call.partition_by.v[1] # call.partition_by.v[2]
    /\ ~call.order_by.some
    /\ call.window_frame.some
    /\ call.window_frame.v.unit = "GROUPS"
    /\ call.window_frame.v.start = Some(1)
    /\ call.window_frame.v.end = Some(0)

(***************************************************************************)
(* Properties of the aliases.                                              *)
(***************************************************************************)
\* <<alias, canonical name>> of the scalar constructors
ScalarAliases ==
    {<<"length", "character_length">>, <<"char_length", "character_length">>,
     <<"pow", "power">>,
     <<"datepart", "date_part">>, <<"datetrunc", "date_trunc">>,
     <<"array", "make_array">>,
     <<"array_push_back", "array_append">>, <<"list_append", "array_append">>,
     <<"list_push_back", "array_append">>,
     <<"array_cat", "array_concat">>,
     <<"list_dims", "array_dims">>,
     <<"list_distinct", "array_distinct">>,
     <<"array_extract", "array_element">>, <<"list_element", "array_element">>,
     <<"list_extract", "array_element">>,
     <<"list_length", "array_length">>,
     <<"array_indexof", "array_position">>, <<"list_position", "array_position">>,
     <<"list_indexof", "array_position">>,
     <<"list_positions", "array_positions">>,
     <<"list_ndims", "array_ndims">>,
     <<"array_push_front", "array_prepend">>, <<"list_prepend", "array_prepend">>,
     <<"list_push_front", "array_prepend">>,
     <<"list_remove", "array_remove">>,
     <<"list_remove_n", "array_remove_n">>,
     <<"list_remove_all", "array_remove_all">>,
     <<"list_replace", "array_replace">>,
     <<"list_replace_n", "array_replace_n">>,
     <<"list_replace_all", "array_replace_all">>,
     <<"list_slice", "array_slice">>,
     <<"list_intersect", "array_intersect">>,
     <<"list_union", "array_union">>,
     <<"list_except", "array_except">>,
     <<"list_resize", "array_resize">>}

\* <<alias, canonical name>> of the aggregate constructors
AggregateAliases ==
    {<<"mean", "avg">>, <<"covar", "covar_samp">>,
     <<"stddev", "stddev_samp">>, <<"var", "var_samp">>}

\* the aliases of array_to_string
ArrayToStringAliases == {"array_join", "list_to_string", "list_join"}

\* C5: a constructor called by an alias returns, for every argument list and
\* every distinct flag, the node the canonical constructor returns for the
\* same inputs.
C5_AliasesAgree ==
    /\ \A p \in ScalarAliases :
        /\ p[1] \in ScalarNames /\ p[2] \in ScalarNames
        /\ call.fn = p[1] => result = scalar_call(p[2], call.args)
    /\ \A p \in AggregateAliases :
        /\ p[1] \in AggregateNames /\ p[2] \in AggregateNames
        /\ call.fn = p[1] =>
               result = aggregate_call(p[2], call.args, call.distinct)
    /\ call.fn \in ArrayToStringAliases =>
           result = Ok(array_to_string(call.expr, call.delim))

\* length, an alias of character_length, was called with two arguments
C5_Witness ==
    /\ call.fn = "length"
    /\ Len(call.args) = 2
    /\ result.status = "ok"
    /\ result.node.func_def.fun = "CharacterLength"

(***************************************************************************)
(* Properties of order_by, count_star and alias.                           *)
(***************************************************************************)
\* C6: order_by always returns a Sort node wrapping the expression, each
\* omitted flag true and each supplied flag as supplied; with both flags
\* omitted the node is the one both flags given as true yield.
C6_OrderByDefaults ==
    call.fn = "order_by" =>
        /\ result.status = "ok"
        /\ result.node =
               [tag |-> "Sort",
                expr |-> call.expr,
                asc |-> (IF call.asc.some THEN call.asc.v ELSE TRUE),
                nulls_first |-> (IF call.nulls_first.some
                                 THEN call.nulls_first.v ELSE TRUE)]
        /\ ~call.asc.some /\ ~call.nulls_first.some =>
               result.node = order_by(call.expr, Some(TRUE), Some(TRUE))

\* order_by was called with asc supplied as false and nulls_first omitted
C6_Witness ==
    /\ call.fn = "order_by"
    /\ call.asc = Some(FALSE)
    /\ ~call.nulls_first.some
    /\ result.status = "ok"
    /\ result.node.nulls_first

\* C7: count_star always returns the builtin aggregate Count over the one
\* argument literal 1, not distinct, with no filter and no ordering: the
\* node count returns for that literal with distinct omitted.
C7_CountStar ==
    /\ call.fn = "count_star" =>
        /\ result.status = "ok"
        /\ result.node =
               [tag |-> "AggregateFunction",
                func_def |-> [kind |-> "BuiltIn", fun |-> "Count"],
                args |-> <<[tag |-> "Literal", value |-> [Int32 |-> 1]]>>,
                distinct |-> FALSE,
                filter |-> None,
                order_by |-> None]
        /\ result = aggregate_call("count", <<lit(1)>>, None)
    /\ call.fn = "count" /\ call.args = <<lit(1)>> /\ ~call.distinct.some =>
           result = Ok(count_star)

\* count_star was called
C7_Witness ==
    /\ call.fn = "count_star"
    /\ result.status = "ok"
    /\ Len(result.node.args) = 1

\* how many Alias nodes wrap an expression
RECURSIVE AliasDepth(_)
AliasDepth(e) == IF e.tag = "Alias" THEN 1 + AliasDepth(e.expr) ELSE 0

\* C8: alias always returns an Alias node without a table qualification
\* around the expression it was given, unchanged: aliasing an aliased
\* expression nests, and the result is one Alias deeper than the input.
C8_AliasNests ==
    call.fn = "alias" =>
        /\ result.status = "ok"
        /\ result.node =
               [tag |-> "Alias", expr |-> call.expr,
                relation |-> [some |-> FALSE], name |-> call.name]
        /\ AliasDepth(result.node) = AliasDepth(call.expr) + 1

\* alias was called on an expression aliased under another name
C8_Witness ==
    /\ call.fn = "alias"
    /\ call.expr.tag = "Alias"
    /\ call.expr.name # call.name
    /\ result.status = "ok"
    /\ result.node.expr.tag = "Alias"

(***************************************************************************)
(* Properties of the generated constructors.                               *)
(***************************************************************************)
\* C9: a constructor scalar_function! generated returns, for an argument
\* list of any length, a ScalarFunction node with its builtin function and
\* the arguments as given, in order; it never fails.
C9_ScalarConstructors ==
    call.fn \in ScalarNames =>
        /\ result.status = "ok"
        /\ result.node =
               [tag |-> "ScalarFunction",
                func_def |-> [kind |-> "BuiltIn", fun |-> ScalarFuncOf(call.fn)],
                args |-> call.args]

\* a scalar constructor of one argument by its nature was called with two
\* different arguments
C9_Witness ==
    /\ call.fn = "abs"
    /\ Len(call.args) = 2
    /\ call.args[1] # call.args[2]
    /\ result.status = "ok"
    /\ result.node.func_def.fun = "Abs"

\* C10: a constructor aggregate_function! generated returns an
\* AggregateFunction node with its builtin function, the arguments as given,
\* in order, distinct as supplied and false when omitted, and neither a
\* filter nor an ordering.
C10_AggregateConstructors ==
    call.fn \in AggregateNames =>
        /\ result.status = "ok"
        /\ result.node =
               [tag |-> "AggregateFunction",
                func_def |-> [kind |-> "BuiltIn",
                              fun |-> AggregateFuncOf(call.fn)],
                args |-> call.args,
                distinct |-> (IF call.distinct.some THEN call.distinct.v
                                                    ELSE FALSE),
                filter |-> [some |-> FALSE],
                order_by |-> [some |-> FALSE]]

\* an aggregate constructor was called with two different arguments and
\* distinct supplied as true
C10_Witness ==
    /\ call.fn = "sum"
    /\ Len(call.args) = 2
    /\ call.args[1] # call.args[2]
    /\ call.distinct = Some(TRUE)
    /\ result.status = "ok"
    /\ result.node.distinct

(***************************************************************************)
(* Properties of the catalog of scalar and aggregate constructors.         *)
(***************************************************************************)
CalledByName == "kind" \in DOMAIN call /\ call.kind = "by_name"

InCatalog == call.fn \in ScalarNames \cup AggregateNames

C12_InList ==
    call.fn = "in_list" =>
        /\ result.status = "ok"
        /\ result.node = [tag |-> "InList", expr |-> call.expr,
                          list |-> call.value, negated |-> call.negated]
        /\ call.value = <<>> =>
               \A row \in Rows :
                   eval_in_list(result.node, row) = call.negated

\* in_list was called with an aliased expression, no value and negated true
C12_Witness ==
    /\ call.fn = "in_list"
    /\ call.value = <<>>
    /\ call.negated
    /\ call.expr.tag = "Alias"
    /\ result.status = "ok"

(***************************************************************************)
(* Properties of concat and concat_ws.                                     *)
(***************************************************************************)
\* C13: concat_ws builds its call with the separator as a text literal that
\* is not null, followed by the other arguments in the order given; null
\* arguments among these are skipped, not rendered: concat_ws(",", [lit("a"),
\* null, lit("b")]) evaluates to "a,b" and concat([null, lit("x")]) to "x".
C13_ConcatWs ==
    /\ call.fn = "concat_ws" =>
        /\ result.status = "ok"
        /\ result.node.tag = "ScalarFunction"
        /\ result.node.func_def = [kind |-> "BuiltIn",
                                   fun |-> "ConcatWithSeparator"]
        /\ result.node.args[1] =
               [tag |-> "Literal", value |-> [Utf8 |-> call.sep]]
        /\ Tail(result.node.args) = call.args
        /\ eval_concat_ws(result.node) =
               Some(Joined(NonNull(call.args), call.sep))
        /\ call.sep = "," /\ call.args = <<lit_str("a"), NullLiteral, lit_str("b")>> =>
               eval_concat_ws(result.node) = Some("a,b")
    /\ call.fn = "concat" =>
        /\ result.status = "ok"
        /\ result.node = [tag |-> "ScalarFunction",
                          func_def |-> [kind |-> "BuiltIn", fun |-> "Concat"],
                          args |-> call.args]
        /\ eval_concat(result.node) = Some(Joined(NonNull(call.args), ""))
        /\ call.args = <<NullLiteral, lit_str("x")>> =>
               eval_concat(result.node) = Some("x")

\* concat_ws was called with "," and the arguments "a", null and "b"
C13_Witness ==
    /\ call.fn = "concat_ws"
    /\ call.sep = ","
    /\ call.args = <<lit_str("a"), NullLiteral, lit_str("b")>>
    /\ result.status = "ok"
    /\ Len(result.node.args) = 4

(***************************************************************************)
(* Properties of digest.                                                   *)
(***************************************************************************)
\* C14: digest never fails when the call is built: for every method, also
\* one naming an algorithm that is not a standard one, it returns a hash
\* call carrying value and method unchanged, in that order.
C14_DigestUnchecked ==
    call.fn = "digest" =>
        /\ result.status = "ok"
        /\ result.node = [tag |-> "ScalarFunction",
                          func_def |-> [kind |-> "BuiltIn", fun |-> "Digest"],
                          args |-> <<call.value, call.method>>]

\* digest was called with the name of an algorithm that is not a standard
\* one
C14_Witness ==
    /\ call.fn = "digest"
    /\ call.method.tag = "Literal"
    /\ call.method.value.Utf8 \notin
           {"md5", "sha224", "sha256", "sha384", "sha512", "blake2s",
            "blake2b", "blake3"}
    /\ result.status = "ok"

(***************************************************************************)
(* The registry and the builders.                                          *)
(***************************************************************************)
\* the call has been made twice
CalledTwice == call # NoCall /\ again # NoResult

\* whether the registry answers for the name as it did before the first call
SameAnswer == (call.name \in registry) <=> (call.name \in registry_before)

\* a step in which a builder runs: the first call or the second
BuilderStep == call' # call \/ again' # again

DefinedConstructors == ScalarNames \cup AggregateNames \cup NamedBuilders

Registered == {module[i] : i \in DOMAIN module}

\* C16: init_module registers every constructor the file defines exactly
\* once, in a fixed order; it returns Ok only after every registration
\* succeeded, and at the first failing registration it stops and returns
\* that error, the earlier registrations in place and the later ones absent.
C16_InitModule ==
    /\ module = SubSeq(RegistrationOrder, 1, init.next - 1)
    /\ \A i, j \in DOMAIN module : i # j => module[i] # module[j]
    /\ init.status = "ok" =>
        /\ Registered = DefinedConstructors
        /\ Len(module) = Cardinality(DefinedConstructors)
        /\ ~ENABLED NextInit
    /\ init.status = "err" =>
        /\ init.next <= Len(RegistrationOrder)
        /\ init.error = RegistrationOrder[init.next]
        /\ \A k \in init.next..Len(RegistrationOrder) :
               RegistrationOrder[k] \notin Registered
        /\ ~ENABLED NextInit

\* the registration of window failed after every earlier one had succeeded
C16_Witness ==
    /\ init.status = "err"
    /\ init.error = "window"
    /\ "var_samp" \in Registered
    /\ "regr_avgx" \notin Registered

====
